---- MODULE Spec2Model ----
(***************************************************************************)
(* fast_acl: request handlers of src/fast_acl/app.py, together with the    *)
(* collaborators they call (check_auth, the permission callable, the       *)
(* permission setting, StudentController), which live outside app.py.      *)
(*                                                                         *)
(* One request is followed from arrival to response: the framework         *)
(* resolves the Depends(...) of the endpoint, then runs the handler body,  *)
(* and a NotFoundError leaving the handler is turned into a 404 by         *)
(* unicorn_exception_handler.  `calls` records, in order, every call the   *)
(* request made to the permission callable and to the StudentController.   *)
(***************************************************************************)
EXTENDS Integers, Sequences, FiniteSets, TLC

\* ---------------------------------------------------------------- bounds
NumClassRooms == 2
MaxStudentId == 3
MaxUserId == 2
MaxBody == 1
MaxRequests == 2

\* ------------------------------------------------------- program constants
UpdateGrade == 10

\* ------------------------------------------------------ response statuses
HTTP_200_OK == "200 OK"
HTTP_401_UNAUTHORIZED == "401 Unauthorized"
HTTP_403_FORBIDDEN == "403 Forbidden"
HTTP_404_NOT_FOUND == "404 Not Found"
NoResponse == "none"

\* --------------------------------------------------------------- domains
UserRoles == {"admin", "teacher", "student"}

RoutesEnum ==
  {"ADD_STUDENT", "READ_STUDENT", "UPDATE_STUDENT", "DELETE_STUDENT", "EXPEL_STUDENT"}

ScopeKind == {"Global", "OwnResourceOnly", "Denied"}

StudentEndpoints ==
  {"create_student", "get_student", "update_student", "delete_student", "expel_student"}

\* endpoints whose signature or decorator carries Depends(check_auth)
AuthenticatedEndpoints == StudentEndpoints \cup {"read_protected_route"}

StoreOps == {"add_student", "get_student", "update_student_grade", "expel_student"}

ExistingClassRooms == 1..NumClassRooms
\* path values of classroom_id: every existing classroom and one id that does not exist
ClassRoomId == 1..(NumClassRooms + 1)
StudentId == 1..MaxStudentId
UserId == 1..MaxUserId
StudetnInput == 1..MaxBody

\* ------------------------------------------------------------- identity
NoToken == [user_id |-> 0, role |-> "none"]

TokenData == [user_id : UserId, role : UserRoles]

InvalidCredential == [valid |-> FALSE, user_id |-> 0, role |-> "none"]

Credentials ==
  {[valid |-> TRUE, user_id |-> u, role |-> q] : u \in UserId, q \in UserRoles}
    \cup {InvalidCredential}

\* check_auth: the bearer credential yields {user_id, role} or fails (unauthenticated)
check_auth(credential) ==
  IF credential.valid
    THEN [ok |-> TRUE, token |-> [user_id |-> credential.user_id, role |-> credential.role]]
    ELSE [ok |-> FALSE, token |-> NoToken]

\* ---------------------------------------------------- permission registry
NoGrant == [found |-> FALSE, allowed |-> FALSE, scope |-> "Denied"]

GrantKinds ==
  << NoGrant,
     [found |-> TRUE, allowed |-> TRUE, scope |-> "Global"],
     [found |-> TRUE, allowed |-> TRUE, scope |-> "OwnResourceOnly"],
     [found |-> TRUE, allowed |-> FALSE, scope |-> "Denied"],
     [found |-> TRUE, allowed |-> FALSE, scope |-> "Global"],
     [found |-> TRUE, allowed |-> FALSE, scope |-> "OwnResourceOnly"],
     [found |-> TRUE, allowed |-> TRUE, scope |-> "Denied"] >>

RouteIdx(route) ==
  CASE route = "ADD_STUDENT" -> 0
    [] route = "READ_STUDENT" -> 1
    [] route = "UPDATE_STUDENT" -> 2
    [] route = "DELETE_STUDENT" -> 3
    [] route = "EXPEL_STUDENT" -> 4

RoleIdx(role) ==
  CASE role = "admin" -> 0
    [] role = "teacher" -> 1
    [] role = "student" -> 2

\* the tables get_permission_setting may hand out: between them every
\* (route, role) pair meets every kind of entry, the missing entry included
PermissionSettings ==
  { [route \in RoutesEnum |-> [role \in UserRoles |->
        GrantKinds[((RouteIdx(route) + RoleIdx(role) + k) % Len(GrantKinds)) + 1]]]
    : k \in 0..(Len(GrantKinds) - 1) }

lookup(setting, route, role) ==
  IF route \in DOMAIN setting /\ role \in DOMAIN setting[route]
    THEN setting[route][role]
    ELSE NoGrant

\* ownership-check collaborator: user u administers classroom u, when it exists
Owns(user_id, classroom_id) ==
  classroom_id \in ExistingClassRooms /\ classroom_id = user_id

Permit == [kind |-> "Permit", reason |-> ""]

Deny(reason) == [kind |-> "Deny", reason |-> reason]

\* the permission callable (Grant Evaluator): a value is returned in every case
authorize(setting, user_rule, user_id, route, classroom_id) ==
  LET grant == lookup(setting, route, user_rule) IN
  IF ~grant.found THEN Deny("no grant defined")
  ELSE IF ~grant.allowed THEN Deny("explicitly denied")
  ELSE IF grant.scope = "Global" THEN Permit
  ELSE IF grant.scope = "OwnResourceOnly"
    THEN IF Owns(user_id, classroom_id) THEN Permit ELSE Deny("not owner of resource")
  ELSE Deny("unrecognized scope")

\* ------------------------------------------------------- resource store
Absent == [classroom_id |-> 0, grade |-> 0, expelled |-> FALSE]

\* add_sample_data: student s of classroom s, for every existing classroom
SampleData ==
  [s \in StudentId |->
     IF s \in ExistingClassRooms
       THEN [classroom_id |-> s, grade |-> 1, expelled |-> FALSE]
       ELSE Absent]

FreeIds(db) == {s \in StudentId : db[s] = Absent}

NewId(db) == CHOOSE s \in FreeIds(db) : \A t \in FreeIds(db) : s <= t

\* StudentController.add_student(**body, classroom_id=classroom_id)
add_student(db, body, classroom_id) ==
  IF classroom_id \notin ExistingClassRooms
    THEN [raised |-> TRUE, db |-> db]
    ELSE [raised |-> FALSE,
          db |-> [db EXCEPT ![NewId(db)] =
                    [classroom_id |-> classroom_id, grade |-> body, expelled |-> FALSE]]]

\* StudentController.get_student(student_id)
store_get_student(db, student_id) ==
  IF db[student_id] = Absent
    THEN [raised |-> TRUE, db |-> db]
    ELSE [raised |-> FALSE, db |-> db]

\* StudentController.update_student_grade(student_id, grade=10)
update_student_grade(db, student_id, grade) ==
  IF db[student_id] = Absent
    THEN [raised |-> TRUE, db |-> db]
    ELSE [raised |-> FALSE, db |-> [db EXCEPT ![student_id].grade = grade]]

\* StudentController.expel_student(student_id)
store_expel_student(db, student_id) ==
  IF db[student_id] = Absent
    THEN [raised |-> TRUE, db |-> db]
    ELSE [raised |-> FALSE, db |-> [db EXCEPT ![student_id].expelled = TRUE]]

\* ------------------------------------------------------------ the state
VARIABLES permission_setting, students, req, pc, token, calls, response, handled

vars == <<permission_setting, students, req, pc, token, calls, response, handled>>

NoRequest == [endpoint |-> "none", classroom_id |-> 0, student_id |-> 0, body |-> 0]

\* what each endpoint takes: /classroom/{classroom_id}/student with a body,
\* /classroom/{classroom_id}/student/{student_id}, and the two routes without a path parameter
Requests ==
  { [endpoint |-> "create_student", classroom_id |-> c, student_id |-> 0, body |-> b]
      : c \in ClassRoomId, b \in StudetnInput }
  \cup
  { [endpoint |-> e, classroom_id |-> c, student_id |-> s, body |-> 0]
      : e \in StudentEndpoints \ {"create_student"}, c \in ClassRoomId, s \in StudentId }
  \cup
  { [endpoint |-> e, classroom_id |-> 0, student_id |-> 0, body |-> 0]
      : e \in {"read_protected_route", "login_for_access_token"} }

Init ==
  /\ permission_setting \in PermissionSettings
  /\ students = SampleData
  /\ req = NoRequest
  /\ pc = "idle"
  /\ token = NoToken
  /\ calls = << >>
  /\ response = NoResponse
  /\ handled = 0

\* ------------------------------------------------------- handler pieces
\* the RoutesEnum member each handler passes as route=
RouteOf_copied(endpoint) ==
  CASE endpoint = "create_student" -> "ADD_STUDENT"
    [] endpoint = "get_student" -> "READ_STUDENT"
    [] endpoint = "update_student" -> "READ_STUDENT"
    [] endpoint = "delete_student" -> "EXPEL_STUDENT"
    [] endpoint = "expel_student" -> "DELETE_STUDENT"

RouteOf_first(endpoint) ==
  CASE endpoint \in StudentEndpoints -> "ADD_STUDENT"

RouteOf(endpoint) ==
  CASE endpoint = "create_student" -> "ADD_STUDENT"
    [] endpoint = "get_student" -> "READ_STUDENT"
    [] endpoint = "update_student" -> "UPDATE_STUDENT"
    [] endpoint = "delete_student" -> "DELETE_STUDENT"
    [] endpoint = "expel_student" -> "EXPEL_STUDENT"

\* the keyword arguments of `await permission_callable(...)`
AuthorizeArgs_student_id(endpoint, r, tok) ==
  [user_rule |-> tok.role, user_id |-> tok.user_id, route |-> RouteOf(endpoint),
   classroom_id |-> r.student_id]

AuthorizeArgs_body(endpoint, r, tok) ==
  [user_rule |-> tok.role, user_id |-> tok.user_id, route |-> RouteOf(endpoint),
   classroom_id |-> r.body]

AuthorizeArgs(endpoint, r, tok) ==
  [user_rule |-> tok.role, user_id |-> tok.user_id, route |-> RouteOf(endpoint),
   classroom_id |-> r.classroom_id]

\* the record `calls` keeps of the permission call: its arguments and what it returned
PermissionCall(endpoint) ==
  LET a == AuthorizeArgs(endpoint, req, token)
      out == authorize(permission_setting, a.user_rule, a.user_id, a.route, a.classroom_id)
  IN [op |-> "authorize", route |-> a.route, role |-> a.user_rule, user_id |-> a.user_id,
      classroom_id |-> a.classroom_id, student_id |-> 0,
      result |-> out.kind, reason |-> out.reason]

StoreCall(op, classroom_id, student_id, raised) ==
  [op |-> op, route |-> "", role |-> "", user_id |-> 0,
   classroom_id |-> classroom_id, student_id |-> student_id,
   result |-> IF raised THEN "NotFoundError" ELSE "ok", reason |-> ""]

\* @app.exception_handler(NotFoundError)
unicorn_exception_handler == HTTP_404_NOT_FOUND

\* the status the framework answers with once the handler body has run
StatusOf(raised) == IF raised THEN unicorn_exception_handler ELSE HTTP_200_OK

\* the body of a handler runs once the framework has resolved its Depends(...)
HandlerReady_unguarded(endpoint) ==
  /\ req.endpoint = endpoint
  /\ pc \in {"deps", "handler"}

HandlerReady(endpoint) ==
  /\ req.endpoint = endpoint
  /\ IF endpoint \in AuthenticatedEndpoints THEN pc = "handler" ELSE pc = "deps"

\* -------------------------------------------------------------- actions
\* a request arrives: endpoint, path parameters and body
Receive ==
  /\ pc \in {"idle", "done"}
  /\ handled < MaxRequests
  /\ handled' = handled + 1
  /\ \E r \in Requests :
       /\ req' = r
       /\ pc' = "deps"
       /\ token' = NoToken
       /\ calls' = << >>
       /\ response' = NoResponse
  /\ UNCHANGED <<permission_setting, students>>

\* Depends(check_auth), on the bearer credential the request carries
resolve_check_auth ==
  /\ pc = "deps"
  /\ req.endpoint \in AuthenticatedEndpoints
  /\ \E credential \in Credentials :
       LET res == check_auth(credential) IN
         IF res.ok
           THEN /\ token' = res.token
                /\ pc' = "handler"
                /\ response' = response
           ELSE /\ token' = NoToken
                /\ pc' = "done"
                /\ response' = HTTP_401_UNAUTHORIZED
  /\ UNCHANGED <<permission_setting, students, req, calls, handled>>

login_for_access_token ==
  /\ HandlerReady("login_for_access_token")
  /\ pc' = "done"
  /\ response' = HTTP_200_OK
  /\ UNCHANGED <<permission_setting, students, req, token, calls, handled>>

read_protected_route ==
  /\ HandlerReady("read_protected_route")
  /\ pc' = "done"
  /\ response' = HTTP_200_OK
  /\ UNCHANGED <<permission_setting, students, req, token, calls, handled>>

\* The five student handlers.  `await permission_callable(...)` is an expression
\* statement: the value it returns is bound to nothing, and the statement after
\* it runs whenever the call returns.
create_student ==
  /\ HandlerReady("create_student")
  /\ FreeIds(students) # {}
  /\ LET az == PermissionCall("create_student")
         st == add_student(students, req.body, req.classroom_id)
     IN /\ calls' = calls \o << az, StoreCall("add_student", req.classroom_id, 0, st.raised) >>
        /\ students' = st.db
        /\ response' = StatusOf(st.raised)
  /\ pc' = "done"
  /\ UNCHANGED <<permission_setting, req, token, handled>>

get_student ==
  /\ HandlerReady("get_student")
  /\ LET az == PermissionCall("get_student")
         st == store_get_student(students, req.student_id)
     IN /\ calls' = calls \o << az, StoreCall("get_student", 0, req.student_id, st.raised) >>
        /\ students' = st.db
        /\ response' = StatusOf(st.raised)
  /\ pc' = "done"
  /\ UNCHANGED <<permission_setting, req, token, handled>>

update_student ==
  /\ HandlerReady("update_student")
  /\ LET az == PermissionCall("update_student")
         st == update_student_grade(students, req.student_id, UpdateGrade)
     IN /\ calls' = calls \o
                      << az, StoreCall("update_student_grade", 0, req.student_id, st.raised) >>
        /\ students' = st.db
        /\ response' = StatusOf(st.raised)
  /\ pc' = "done"
  /\ UNCHANGED <<permission_setting, req, token, handled>>

delete_student ==
  /\ HandlerReady("delete_student")
  /\ calls' = calls \o << PermissionCall("delete_student") >>
  /\ response' = HTTP_200_OK
  /\ pc' = "done"
  /\ UNCHANGED <<permission_setting, students, req, token, handled>>

expel_student ==
  /\ HandlerReady("expel_student")
  /\ LET az == PermissionCall("expel_student")
         st == store_expel_student(students, req.student_id)
     IN /\ calls' = calls \o << az, StoreCall("expel_student", 0, req.student_id, st.raised) >>
        /\ students' = st.db
        /\ response' = StatusOf(st.raised)
  /\ pc' = "done"
  /\ UNCHANGED <<permission_setting, req, token, handled>>

Next ==
  \/ Receive
  \/ resolve_check_auth
  \/ login_for_access_token
  \/ read_protected_route
  \/ create_student
  \/ get_student
  \/ update_student
  \/ delete_student
  \/ expel_student

Spec == Init /\ [][Next]_vars

\* ------------------------------------------------- reading the call record
AuthorizeIdx == {i \in DOMAIN calls : calls[i].op = "authorize"}

StoreIdx == {i \in DOMAIN calls : calls[i].op \in StoreOps}

\* the route each endpoint stands for: POST, GET, PUT, DELETE, PATCH
EndpointRoute(endpoint) ==
  CASE endpoint = "create_student" -> "ADD_STUDENT"
    [] endpoint = "get_student" -> "READ_STUDENT"
    [] endpoint = "update_student" -> "UPDATE_STUDENT"
    [] endpoint = "delete_student" -> "DELETE_STUDENT"
    [] endpoint = "expel_student" -> "EXPEL_STUDENT"
    [] OTHER -> "none"

\* the entry of the table for the endpoint of the request and the role of its token
RequestGrant == lookup(permission_setting, EndpointRoute(req.endpoint), token.role)

\* C1: in every request to a student handler, authorize is called before any
\* Resource Store operation, and once authorize has answered Deny the request
\* makes no Resource Store call at all.
C1_NoStoreCallAfterDeny ==
  /\ \A i \in StoreIdx : \E j \in AuthorizeIdx : j < i
  /\ (\E j \in AuthorizeIdx : calls[j].result = "Deny") => StoreIdx = {}

\* C2: a (route, role) pair without an entry in the permission table is denied
\* with reason "no grant defined", never permitted, and the Store is not invoked
\* for that request.
C2_MissingEntryDeniedStoreUntouched ==
  \A j \in AuthorizeIdx :
    ~lookup(permission_setting, calls[j].route, calls[j].role).found
      => /\ calls[j].result = "Deny"
         /\ calls[j].reason = "no grant defined"
         /\ StoreIdx = {}

\* C3: when the grant of the route and role is allowed with scope
\* OwnResourceOnly, the request is permitted exactly when the identity of the
\* token owns the classroom of the request path, and is otherwise denied with
\* reason "not owner of resource".
C3_OwnResourceOnlyIffOwner ==
  \A j \in AuthorizeIdx :
    LET grant == lookup(permission_setting, calls[j].route, calls[j].role) IN
    (grant.found /\ grant.allowed /\ grant.scope = "OwnResourceOnly")
      => /\ calls[j].result = "Permit" <=> Owns(token.user_id, req.classroom_id)
         /\ calls[j].result # "Permit"
              => calls[j].result = "Deny" /\ calls[j].reason = "not owner of resource"

\* a teacher who owns classroom 1 adds a student to it under an OwnResourceOnly grant
C3_Witness ==
  /\ req.endpoint = "create_student"
  /\ token = [user_id |-> 1, role |-> "teacher"]
  /\ req.classroom_id = 1
  /\ RequestGrant = [found |-> TRUE, allowed |-> TRUE, scope |-> "OwnResourceOnly"]
  /\ \E j \in AuthorizeIdx : calls[j].result = "Permit"

\* C4: when the grant of the endpoint's route and the token's role has
\* allowed = FALSE, the request is denied with reason "explicitly denied",
\* whatever the scope of the grant and also when the identity owns the classroom.
C4_ExplicitDenyOverridesOwnership ==
  \A j \in AuthorizeIdx :
    (req.endpoint \in StudentEndpoints /\ RequestGrant.found /\ ~RequestGrant.allowed)
      => calls[j].result = "Deny" /\ calls[j].reason = "explicitly denied"

\* a teacher who owns the classroom is refused EXPEL_STUDENT by a grant that is not allowed
C4_Witness ==
  /\ req.endpoint = "expel_student"
  /\ token.role = "teacher"
  /\ Owns(token.user_id, req.classroom_id)
  /\ RequestGrant.found /\ ~RequestGrant.allowed
  /\ \E j \in AuthorizeIdx : calls[j].reason = "explicitly denied"

\* C5: when the grant of the endpoint's route and the token's role is allowed
\* with scope Global, the request is permitted for every classroom id, owned or
\* not, existing or not.
C5_GlobalGrantPermits ==
  \A j \in AuthorizeIdx :
    (req.endpoint \in StudentEndpoints
       /\ RequestGrant = [found |-> TRUE, allowed |-> TRUE, scope |-> "Global"])
      => calls[j].result = "Permit"

\* an admin is permitted DELETE_STUDENT on a classroom id that does not exist
C5_Witness ==
  /\ req.endpoint = "delete_student"
  /\ token.role = "admin"
  /\ req.classroom_id \notin ExistingClassRooms
  /\ RequestGrant = [found |-> TRUE, allowed |-> TRUE, scope |-> "Global"]
  /\ \E j \in AuthorizeIdx : calls[j].result = "Permit"

\* C6: authorize always returns Permit or a Deny value that carries a reason,
\* and the handler that received a Deny answers the request with the
\* transport-level rejection.
C6_DenyValueBecomesRejection ==
  \A j \in AuthorizeIdx :
    /\ calls[j].result \in {"Permit", "Deny"}
    /\ calls[j].result = "Deny" => calls[j].reason # ""
    /\ (pc = "done" /\ calls[j].result = "Deny") => response = HTTP_403_FORBIDDEN

\* C7: a request is answered not-found only after authorize has returned Permit
\* for that same request.
C7_NotFoundOnlyAfterPermit ==
  response = HTTP_404_NOT_FOUND => \E j \in AuthorizeIdx : calls[j].result = "Permit"

\* C8: a request whose authentication failed is rejected without any call to
\* authorize or to the Resource Store, and every call to authorize or to the
\* Store is made for the identity a successful authentication produced.
C8_UnauthenticatedNeverReachesEvaluator ==
  /\ response = HTTP_401_UNAUTHORIZED => calls = << >>
  /\ calls # << >> => token \in TokenData
  /\ \A j \in AuthorizeIdx : calls[j].user_id = token.user_id /\ calls[j].role = token.role

\* a request to a student handler was rejected at the boundary
C8_Witness ==
  /\ req.endpoint \in StudentEndpoints
  /\ pc = "done"
  /\ response = HTTP_401_UNAUTHORIZED
  /\ calls = << >>

\* C9: the arguments of authorize are the route of the endpoint, the
\* classroom_id of the path and the user id and role of the token, the decision
\* is the one these four determine, and a handler that ran made exactly one
\* such call; the request body has no part in it.
C9_AuthorizeArgsFromPathAndToken ==
  /\ \A j \in AuthorizeIdx :
       /\ calls[j].route = EndpointRoute(req.endpoint)
       /\ calls[j].classroom_id = req.classroom_id
       /\ calls[j].user_id = token.user_id
       /\ calls[j].role = token.role
       /\ calls[j].result =
            authorize(permission_setting, token.role, token.user_id,
                      EndpointRoute(req.endpoint), req.classroom_id).kind
  /\ (pc = "done" /\ req.endpoint \in StudentEndpoints /\ response # HTTP_401_UNAUTHORIZED)
       => Cardinality(AuthorizeIdx) = 1

\* a create_student request whose body value differs from the classroom of its path
C9_Witness ==
  /\ req.endpoint = "create_student"
  /\ req.body # req.classroom_id
  /\ Owns(token.user_id, req.classroom_id)
  /\ ~Owns(token.user_id, req.body)
  /\ RequestGrant = [found |-> TRUE, allowed |-> TRUE, scope |-> "OwnResourceOnly"]
  /\ \E j \in AuthorizeIdx : calls[j].result = "Permit"

\* C10: when get_student, update_student or expel_student acts on a student
\* under a Permit obtained through an OwnResourceOnly grant, the caller owns the
\* classroom that student belongs to.
C10_PermitCoversStudentsClassroom ==
  \A i \in StoreIdx :
    (/\ calls[i].op \in {"get_student", "update_student_grade", "expel_student"}
     /\ calls[i].result = "ok"
     /\ \E j \in AuthorizeIdx : j < i /\ calls[j].result = "Permit"
     /\ RequestGrant = [found |-> TRUE, allowed |-> TRUE, scope |-> "OwnResourceOnly"])
      => Owns(token.user_id, students[calls[i].student_id].classroom_id)

====
